---- MODULE Spec2Model ----
(***************************************************************************)
(* Model of the cursor iterator of go.teddydd.me/iter (src/iterator.go).   *)
(* A Cursor holds the request for the next fetch, the last response and    *)
(* the "next" flag; New, Next, Get, Iterate and Reset are its operations.  *)
(* The three caller-supplied closures (HasNext, FetchNext,                 *)
(* GetFirstRequest) are drawn from a configuration chosen at construction. *)
(***************************************************************************)
EXTENDS Integers, Sequences, FiniteSets, TLC

VARIABLES cfg, request, response, next, pc, last, trace, fresh, ctx, checked,
          callers

vars == <<cfg, request, response, next, pc, last, trace, fresh, ctx, checked,
          callers>>

(* ------------------------------ bounds -------------------------------- *)

\* largest recordsCount given to MockAPIHandler
MaxRecords == 5
\* largest page limit simpleIterator asks the server for
MaxLimit == 2
\* largest request value an opaque HasNext / GetFirstRequest may produce
MaxInput == 1
\* longest page an opaque FetchNext may produce
MaxPageLen == 1
\* most fetches one Iterate call of the model performs, and most it performs
\* with opaque closures (whose every call branches)
MaxFetch == 4
MaxOpaqueFetch == 2
\* most fetches one run of the manual loop of the model performs
MaxGets == 7
\* most calls each of the goroutines sharing one cursor makes
MaxCalls == 2

(* ------------------------------ errors -------------------------------- *)

\* An error is the chain of messages obtained by unwrapping it; nil is the
\* empty chain.
Nil == <<>>

ErrStop == <<"iterator stopped">>

\* fmt.Errorf("...: %w", ErrStop): an error value that wraps the sentinel
WrapStop == <<"wrapped">> \o ErrStop

\* the error of brokenIterator's FetchNext
ErrNope == <<"nope">>

\* the error of simpleIterator's FetchNext on a non-200 status
ErrStatus == <<"unexpected status code">>

\* context.Canceled
ErrCanceled == <<"context canceled">>

Errors == {ErrStop, WrapStop, ErrNope}

\* errors.Is(err, target): err or some error it wraps is target
ErrorsIs(err, target) ==
    /\ err # Nil
    /\ \E i \in 1..Len(err) : SubSeq(err, i, Len(err)) = target

(* ------------------------ values and closures ------------------------- *)

\* zero value of Request (int) and of Response ([]Record)
ZeroRequest == 0
ZeroResponse == <<>>

\* the request body's limit in simpleIterator as the tests build it
Limit == 2

RECURSIVE Filter(_, _, _, _, _)
\* the filter loop of MockAPIHandler over records i..recordsCount
Filter(i, recordsCount, lastSeen, limit, acc) ==
    IF i > recordsCount THEN acc
    ELSE IF i > lastSeen
         THEN IF Len(acc) + 1 = limit
              THEN Append(acc, i)
              ELSE Filter(i + 1, recordsCount, lastSeen, limit, Append(acc, i))
         ELSE Filter(i + 1, recordsCount, lastSeen, limit, acc)

\* the page MockAPIHandler(recordsCount) answers to {lastSeen, limit}
MockAPIHandler(recordsCount, lastSeen, limit) ==
    Filter(1, recordsCount, lastSeen, limit, <<>>)

\* pages an opaque FetchNext may return, and requests an opaque HasNext may
\* return
OpaqueResponses == {MockAPIHandler(n, 0, n + 1) : n \in 0..MaxPageLen}
OpaqueRequests == 0..MaxInput

Configs ==
    {[kind |-> "simple", records |-> r, limit |-> l, first |-> 0] :
        r \in 0..MaxRecords, l \in 1..MaxLimit}
    \cup {[kind |-> "broken", records |-> 0, limit |-> 0, first |-> 1]}
    \cup {[kind |-> "opaque", records |-> 0, limit |-> 0, first |-> f] :
             f \in OpaqueRequests}

\* the outcomes (response, error) one call of the FetchNext closure can have
FetchNext(c, req) ==
    CASE c.kind = "simple" ->
            {[res |-> MockAPIHandler(c.records, req, c.limit), err |-> Nil],
             [res |-> ZeroResponse, err |-> ErrStatus]}
      [] c.kind = "broken" ->
            {[res |-> ZeroResponse, err |-> ErrNope]}
      [] OTHER ->
            {[res |-> r, err |-> e] : r \in OpaqueResponses, e \in {Nil} \cup Errors}

\* the outcomes (request, more) one call of the HasNext closure can have
HasNext(c, resp) ==
    CASE c.kind = "simple" ->
            IF Len(resp) > 0
            THEN {[in |-> resp[Len(resp)], more |-> TRUE]}
            ELSE {[in |-> 0, more |-> FALSE]}
      [] c.kind = "broken" ->
            {[in |-> 0, more |-> TRUE]}
      [] OTHER ->
            {[in |-> i, more |-> m] : i \in OpaqueRequests, m \in BOOLEAN}

GetFirstRequest(c) == c.first

\* placeholders for the outcome of a closure call the code does not make
NoFetch == [res |-> ZeroResponse, err |-> Nil]
NoHasNext == [in |-> ZeroRequest, more |-> FALSE]

\* the handle Get and Iterate pass to fetchNext when they were given x
Forward(x) == x

\* the outcomes of one call of the FetchNext closure under the handle x: a
\* closure that respects cancellation reports it; brokenIterator's ignores
\* the handle
FetchNextCtx(x, c, req) ==
    IF x = "canceled" /\ c.kind # "broken"
    THEN {[res |-> ZeroResponse, err |-> ErrCanceled]}
    ELSE FetchNext(c, req)

\* the closure outcomes one Get call from cursor state (req, nxt) consumes
FetchOutcomes(c, req, nxt) ==
    IF nxt THEN FetchNextCtx(Forward(ctx), c, req) ELSE {NoFetch}
HasNextOutcomes(c, nxt, fo) ==
    IF nxt /\ fo.err = Nil THEN HasNext(c, fo.res) ELSE {NoHasNext}

\* the number of fetches after which the model follows an Iterate call no
\* further
FetchCap(c) == IF c.kind = "opaque" THEN MaxOpaqueFetch ELSE MaxFetch

\* what a callback given to Iterate may return
CallbackReturns == {Nil} \cup Errors

(* ------------------------------ history ------------------------------- *)

\* one entry of the call trace of the running (or last) operation
Event(ev, in, res, err, more, fr) ==
    [ev |-> ev, in |-> in, res |-> res, err |-> err, more |-> more, fresh |-> fr]

\* fetchNext(req) returned fo; hasNext(resp) returned ho; callback(resp)
\* returned err; the callback called Reset; Get returned (res, err); Iterate was entered with the
\* cursor at (req, resp, nxt) and fr telling whether it was fetched from since
\* New or Reset
FetchEvent(req, fo) == Event("fetchNext", req, fo.res, fo.err, FALSE, "")
HasNextEvent(resp, ho) == Event("hasNext", ho.in, resp, Nil, ho.more, "")
CallbackEvent(resp, err) == Event("callback", ZeroRequest, resp, err, FALSE, "")
ResetEvent(req) == Event("Reset", req, ZeroResponse, Nil, TRUE, "")
GetEvent(res, err) == Event("Get", ZeroRequest, res, err, FALSE, "")
StartEvent(req, resp, nxt, fr) == Event("Iterate", req, resp, Nil, nxt, fr)

\* what is known of the hasNext calls made so far: what the most recent one
\* reported ("none" before the first) and whether one was made since New or
\* the last Reset
NotChecked == [more |-> "none", since |-> FALSE]
AfterGet(h, g) ==
    IF Len(g.events) = 2
    THEN [more |-> IF g.events[2].more THEN "true" ELSE "false", since |-> TRUE]
    ELSE h
AfterReset(h) == [more |-> h.more, since |-> FALSE]

\* what the last completed call returned
Return(op, res, err, b) == [op |-> op, res |-> res, err |-> err, b |-> b]

Select(s, kind) == SelectSeq(s, LAMBDA e : e.ev = kind)
Fetches(t) == Select(t, "fetchNext")

\* the goroutines that share one cursor
Callers == {1, 2}
Other(c) == 3 - c

\* what a goroutine holds of its running (or last) call on the cursor: the
\* statement it is at, the call's number and operation, the request it read,
\* the outcome of its fetch, the response it read and the outcome of its
\* continuation check, what the call returned, and what was seen of the
\* other goroutine: the number of the other's Get call that had read the
\* same request and not yet replaced it when this one read it (0 if none),
\* whether the other wrote the request by Reset between this call's read and
\* its own write of it, and whether this goroutine ever saw each of the two
Call(at, calls, op, req, fo, resp, ho, ret, overlap, resetSeen, twice, lost) ==
    [at |-> at, calls |-> calls, op |-> op, req |-> req, fo |-> fo,
     resp |-> resp, ho |-> ho, ret |-> ret, overlap |-> overlap,
     resetSeen |-> resetSeen, twice |-> twice, lost |-> lost]
NoCall ==
    Call("idle", 0, "none", ZeroRequest, NoFetch, ZeroResponse, NoHasNext,
         Return("none", ZeroResponse, Nil, FALSE), 0, FALSE, FALSE, FALSE)

\* a Get call that has read d.request and not yet assigned it
HoldsRequest(k) == k.op = "Get" /\ k.at \in {"store", "stored", "advance"}

(* ----------------------------- operations ----------------------------- *)

\* New that seeds the request from GetFirstRequest
NewSeeded ==
    [request |-> GetFirstRequest(cfg), response |-> ZeroResponse, next |-> TRUE]

\* New: the fields of a fresh cursor
New == [request |-> ZeroRequest, response |-> ZeroResponse, next |-> TRUE]

\* Next: the value d.Next() returns when the flag is nxt
HasMore(nxt) == nxt

\* Get that reports the stop sentinel as soon as hasNext says there is no
\* more, dropping the page just fetched
GetDropsTerminal(req, resp, nxt, fo, ho) ==
    IF ~nxt
    THEN [request |-> req, response |-> resp, next |-> nxt,
          res |-> resp, err |-> ErrStop, events |-> <<>>]
    ELSE IF fo.err # Nil
    THEN [request |-> req, response |-> fo.res, next |-> nxt,
          res |-> fo.res, err |-> fo.err,
          events |-> <<FetchEvent(req, fo)>>]
    ELSE [request |-> ho.in, response |-> fo.res, next |-> ho.more,
          res |-> IF ho.more THEN fo.res ELSE ZeroResponse,
          err |-> IF ho.more THEN Nil ELSE ErrStop,
          events |-> <<FetchEvent(req, fo), HasNextEvent(fo.res, ho)>>]

\* Get without the check of the flag: it fetches on an exhausted cursor
GetNoGuard(req, resp, nxt, fo, ho) ==
    IF fo.err # Nil
    THEN [request |-> req, response |-> fo.res, next |-> nxt,
          res |-> fo.res, err |-> fo.err,
          events |-> <<FetchEvent(req, fo)>>]
    ELSE [request |-> ho.in, response |-> fo.res, next |-> ho.more,
          res |-> fo.res, err |-> Nil,
          events |-> <<FetchEvent(req, fo), HasNextEvent(fo.res, ho)>>]

\* Get that runs the continuation check even when the fetch failed
GetAdvancesOnError(req, resp, nxt, fo, ho) ==
    IF ~nxt
    THEN [request |-> req, response |-> resp, next |-> nxt,
          res |-> resp, err |-> ErrStop, events |-> <<>>]
    ELSE IF fo.err # Nil
    THEN [request |-> ho.in, response |-> fo.res, next |-> ho.more,
          res |-> fo.res, err |-> fo.err,
          events |-> <<FetchEvent(req, fo)>>]
    ELSE [request |-> ho.in, response |-> fo.res, next |-> ho.more,
          res |-> fo.res, err |-> Nil,
          events |-> <<FetchEvent(req, fo), HasNextEvent(fo.res, ho)>>]

\* Get that wraps the error of a failed fetch
GetWrapsError(req, resp, nxt, fo, ho) ==
    IF ~nxt
    THEN [request |-> req, response |-> resp, next |-> nxt,
          res |-> resp, err |-> ErrStop, events |-> <<>>]
    ELSE IF fo.err # Nil
    THEN [request |-> req, response |-> fo.res, next |-> nxt,
          res |-> fo.res, err |-> <<"get">> \o fo.err,
          events |-> <<FetchEvent(req, fo)>>]
    ELSE [request |-> ho.in, response |-> fo.res, next |-> ho.more,
          res |-> fo.res, err |-> Nil,
          events |-> <<FetchEvent(req, fo), HasNextEvent(fo.res, ho)>>]

\* Get that takes the flag from hasNext but leaves the request as it was
GetKeepsRequest(req, resp, nxt, fo, ho) ==
    IF ~nxt
    THEN [request |-> req, response |-> resp, next |-> nxt,
          res |-> resp, err |-> ErrStop, events |-> <<>>]
    ELSE IF fo.err # Nil
    THEN [request |-> req, response |-> fo.res, next |-> nxt,
          res |-> fo.res, err |-> fo.err,
          events |-> <<FetchEvent(req, fo)>>]
    ELSE [request |-> req, response |-> fo.res, next |-> ho.more,
          res |-> fo.res, err |-> Nil,
          events |-> <<FetchEvent(req, fo), HasNextEvent(fo.res, ho)>>]

\* Get, given the outcome fo of the fetch and ho of the continuation check
\* (each used only if the code reaches that call)
Get(req, resp, nxt, fo, ho) ==
    IF ~nxt
    THEN [request |-> req, response |-> resp, next |-> nxt,
          res |-> resp, err |-> ErrStop, events |-> <<>>]
    ELSE IF fo.err # Nil
    THEN [request |-> req, response |-> fo.res, next |-> nxt,
          res |-> fo.res, err |-> fo.err,
          events |-> <<FetchEvent(req, fo)>>]
    ELSE [request |-> ho.in, response |-> fo.res, next |-> ho.more,
          res |-> fo.res, err |-> Nil,
          events |-> <<FetchEvent(req, fo), HasNextEvent(fo.res, ho)>>]

RECURSIVE ManualLoop(_, _, _, _, _)
\* the loop `for d.Next() { r, err := d.Get(); if err != nil { break } ... }`
\* run from cursor state (req, resp, nxt) against the closure outcomes outs:
\* the state it leaves, the pages it got, the error it broke on, the
\* outcomes it did not use, and whether it asked for more than outs holds
ManualLoop(req, resp, nxt, outs, pages) ==
    IF ~HasMore(nxt) \/ outs = <<>>
    THEN [request |-> req, response |-> resp, next |-> nxt, pages |-> pages,
          err |-> Nil, left |-> outs, starved |-> HasMore(nxt)]
    ELSE LET g == Get(req, resp, nxt, Head(outs).fo, Head(outs).ho) IN
            IF g.err # Nil
            THEN [request |-> g.request, response |-> g.response,
                  next |-> g.next, pages |-> pages, err |-> g.err,
                  left |-> Tail(outs), starved |-> FALSE]
            ELSE ManualLoop(g.request, g.response, g.next, Tail(outs),
                            Append(pages, g.res))

\* Reset that forgets to raise the flag again
ResetKeepsFlag(c, req, nxt) == [request |-> GetFirstRequest(c), next |-> nxt]

\* Reset that raises the flag but keeps the pending request
ResetKeepsRequest(c, req, nxt) == [request |-> req, next |-> TRUE]

\* Reset: the request and the flag it assigns, from cursor state (req, nxt)
Reset(c, req, nxt) == [request |-> GetFirstRequest(c), next |-> TRUE]

\* Iterate that hands the callback whatever Get returned, error or not
IterateIgnoresError(g) == "callback"

\* Iterate that looks at the flag before handing the page to the callback
IterateSkipsTerminal(g) ==
    IF g.err # Nil \/ ~g.next THEN "return" ELSE "callback"

\* Iterate after d.Get() returned g: leave with an error result, or go on to
\* the callback
IterateAfterGet(g) == IF g.err # Nil THEN "return" ELSE "callback"

\* Iterate that hands every error on, the stop sentinel included
IterateReturnsStop(err) == err

\* Iterate that wraps the error it hands on
IterateReturnWraps(err) ==
    IF ErrorsIs(err, ErrStop) THEN Nil ELSE <<"iterate">> \o err

\* the value Iterate returns when Get or the callback gave a non-nil error
IterateReturn(err) == IF ErrorsIs(err, ErrStop) THEN Nil ELSE err

Init ==
    /\ cfg \in Configs
    /\ request = New.request
    /\ response = New.response
    /\ next = New.next
    /\ pc = "idle"
    /\ last = Return("New", ZeroResponse, Nil, FALSE)
    /\ trace = <<>>
    /\ fresh = "New"
    /\ ctx = "live"
    /\ checked = NotChecked
    /\ callers = [c \in Callers |-> NoCall]

\* d.Next() that drops the flag once it has reported it
CursorNextConsumes ==
    /\ pc = "idle"
    /\ last' = Return("Next", ZeroResponse, Nil, HasMore(next))
    /\ trace' = <<>>
    /\ next' = FALSE
    /\ UNCHANGED <<cfg, callers, ctx, request, response, pc, fresh, checked>>

\* d.Next()
CursorNext ==
    /\ pc = "idle"
    /\ last' = Return("Next", ZeroResponse, Nil, HasMore(next))
    /\ trace' = <<>>
    /\ UNCHANGED <<cfg, callers, ctx, request, response, next, pc, fresh, checked>>

\* d.Get() called by the consumer
CursorGet ==
    /\ pc = "idle"
    /\ \E fo \in FetchOutcomes(cfg, request, next) :
       \E ho \in HasNextOutcomes(cfg, next, fo) :
         LET g == Get(request, response, next, fo, ho) IN
            /\ request' = g.request
            /\ response' = g.response
            /\ next' = g.next
            /\ last' = Return("Get", g.res, g.err, FALSE)
            /\ trace' = g.events
            /\ fresh' = IF g.events = <<>> THEN fresh ELSE "used"
            /\ checked' = AfterGet(checked, g)
    /\ UNCHANGED <<cfg, callers, ctx, pc>>

\* d.Reset() that also clears the stored response
CursorResetClears ==
    /\ pc = "idle"
    /\ request' = Reset(cfg, request, next).request
    /\ next' = Reset(cfg, request, next).next
    /\ response' = ZeroResponse
    /\ last' = Return("Reset", ZeroResponse, Nil, FALSE)
    /\ trace' = <<>>
    /\ fresh' = "Reset"
    /\ checked' = AfterReset(checked)
    /\ UNCHANGED <<cfg, callers, ctx, pc>>

\* d.Reset() called by the consumer
CursorReset ==
    /\ pc = "idle"
    /\ request' = Reset(cfg, request, next).request
    /\ next' = Reset(cfg, request, next).next
    /\ last' = Return("Reset", ZeroResponse, Nil, FALSE)
    /\ trace' = <<>>
    /\ fresh' = "Reset"
    /\ checked' = AfterReset(checked)
    /\ UNCHANGED <<cfg, callers, ctx, response, pc>>

\* d.Iterate(callback) is entered
IterateCall ==
    /\ pc = "idle"
    /\ pc' = "loop"
    /\ last' = Return("none", ZeroResponse, Nil, FALSE)
    /\ trace' = <<StartEvent(request, response, next, fresh)>>
    /\ UNCHANGED <<cfg, callers, ctx, request, response, next, fresh, checked>>

\* one pass of Iterate's loop up to the callback: the loop condition, then Get
IterateLoop ==
    /\ pc = "loop"
    /\ IF ~HasMore(next)
       THEN /\ pc' = "idle"
            /\ last' = Return("Iterate", ZeroResponse, Nil, FALSE)
            /\ UNCHANGED <<cfg, callers, ctx, request, response, next, trace, fresh, checked>>
       ELSE /\ Len(Fetches(trace)) < FetchCap(cfg)
            /\ \E fo \in FetchOutcomes(cfg, request, next) :
               \E ho \in HasNextOutcomes(cfg, next, fo) :
                 LET g == Get(request, response, next, fo, ho) IN
                    /\ request' = g.request
                    /\ response' = g.response
                    /\ next' = g.next
                    /\ trace' = trace \o g.events
                    /\ fresh' = IF g.events = <<>> THEN fresh ELSE "used"
                    /\ checked' = AfterGet(checked, g)
                    /\ IF IterateAfterGet(g) = "return"
                       THEN /\ pc' = "idle"
                            /\ last' = Return("Iterate", ZeroResponse,
                                              IterateReturn(g.err), FALSE)
                       ELSE /\ pc' = "callback"
                            /\ last' = Return("none", g.res, Nil, FALSE)
            /\ UNCHANGED <<cfg, callers, ctx>>

\* the callback runs on the response Get returned (it may call Reset on the
\* cursor) and Iterate acts on what it returns
IterateCallback ==
    /\ pc = "callback"
    /\ \E err \in CallbackReturns, doReset \in BOOLEAN :
         /\ IF doReset
            THEN /\ request' = Reset(cfg, request, next).request
                 /\ next' = Reset(cfg, request, next).next
                 /\ fresh' = "Reset"
                 /\ checked' = AfterReset(checked)
                 /\ trace' = trace \o <<ResetEvent(Reset(cfg, request, next).request),
                                        CallbackEvent(last.res, err)>>
            ELSE /\ trace' = Append(trace, CallbackEvent(last.res, err))
                 /\ UNCHANGED <<request, next, fresh, checked>>
         /\ IF err # Nil
            THEN /\ pc' = "idle"
                 /\ last' = Return("Iterate", ZeroResponse, IterateReturn(err), FALSE)
            ELSE /\ pc' = "loop"
                 /\ last' = Return("none", ZeroResponse, Nil, FALSE)
    /\ UNCHANGED <<cfg, callers, ctx, response>>

\* the manual loop of the tests is entered: Reset, then `for Next() { Get() }`
ManualCall ==
    /\ pc = "idle"
    /\ request' = Reset(cfg, request, next).request
    /\ next' = Reset(cfg, request, next).next
    /\ fresh' = "Reset"
    /\ checked' = AfterReset(checked)
    /\ pc' = "manual"
    /\ last' = Return("none", <<>>, Nil, FALSE)
    /\ trace' = <<>>
    /\ UNCHANGED <<cfg, callers, ctx, response>>

\* one pass of the manual loop: the loop condition, then Get, whose page is
\* appended to the results collected in last.res (an error of Get is
\* reported and the loop goes on)
ManualStep ==
    /\ pc = "manual"
    /\ IF ~HasMore(next)
       THEN /\ pc' = "idle"
            /\ last' = Return("Manual", last.res, Nil, FALSE)
            /\ UNCHANGED <<cfg, callers, ctx, request, response, next, trace, fresh, checked>>
       ELSE /\ Len(Fetches(trace)) < MaxGets
            /\ \E fo \in FetchOutcomes(cfg, request, next) :
               \E ho \in HasNextOutcomes(cfg, next, fo) :
                 LET g == Get(request, response, next, fo, ho) IN
                    /\ request' = g.request
                    /\ response' = g.response
                    /\ next' = g.next
                    /\ trace' = trace \o g.events \o <<GetEvent(g.res, g.err)>>
                    /\ fresh' = IF g.events = <<>> THEN fresh ELSE "used"
                    /\ checked' = AfterGet(checked, g)
                    /\ last' = Return("none", last.res \o g.res, Nil, FALSE)
            /\ UNCHANGED <<cfg, callers, ctx, pc>>

Next ==
    \/ CursorNext
    \/ CursorGet
    \/ CursorReset
    \/ IterateCall
    \/ IterateLoop
    \/ IterateCallback

Spec == Init /\ [][Next]_vars

\* Iterate's loop is not interrupted: a pass that can run runs, and the
\* callback returns
SpecLive == Spec /\ WF_vars(IterateLoop) /\ WF_vars(IterateCallback)

\* the consumer cancels the context it passes to Get and Iterate
Cancel ==
    /\ ctx = "live"
    /\ ctx' = "canceled"
    /\ UNCHANGED <<cfg, callers, request, response, next, pc, last, trace, fresh, checked>>

\* the consumer makes a new context for its next calls
NewContext ==
    /\ pc = "idle"
    /\ ctx = "canceled"
    /\ ctx' = "live"
    /\ UNCHANGED <<cfg, callers, request, response, next, pc, last, trace, fresh, checked>>

\* the cursor used with a context that may be cancelled at any moment
NextCtx ==
    \/ CursorNext
    \/ CursorGet
    \/ CursorReset
    \/ IterateCall
    \/ IterateLoop
    \/ IterateCallback
    \/ Cancel
    \/ NewContext
SpecCtx == Init /\ [][NextCtx]_vars

\* the manual loop run, again and again, on simpleIterator
InitManual == Init /\ cfg.kind = "simple"
NextManual ==
    \/ ManualCall
    \/ ManualStep
SpecManual == InitManual /\ [][NextManual]_vars

(* ------------------- two goroutines on one cursor --------------------- *)

\* Each action below is one access of a goroutine to the cursor's fields,
\* with the closure call that feeds it; between any two of them the other
\* goroutine may run.

Cursor == <<request, response, next>>
History == <<pc, last, trace, fresh, ctx, checked>>

\* d.Get() that takes a lock on the cursor: entered only while no other call
\* is running
RaceGetCallLocked(c) ==
    /\ callers[c].at = "idle"
    /\ callers[Other(c)].at = "idle"
    /\ callers[c].calls < MaxCalls
    /\ callers' = [callers EXCEPT ![c] =
          Call(IF next THEN "fetch" ELSE "stop", @.calls + 1, "Get",
               ZeroRequest, NoFetch, ZeroResponse, NoHasNext, @.ret, 0, FALSE,
               @.twice, @.lost)]
    /\ UNCHANGED <<cfg, Cursor, History>>

\* goroutine c calls d.Get(): the read of d.next
RaceGetCall(c) ==
    /\ callers[c].at = "idle"
    /\ callers[c].calls < MaxCalls
    /\ callers' = [callers EXCEPT ![c] =
          Call(IF next THEN "fetch" ELSE "stop", @.calls + 1, "Get",
               ZeroRequest, NoFetch, ZeroResponse, NoHasNext, @.ret, 0, FALSE,
               @.twice, @.lost)]
    /\ UNCHANGED <<cfg, Cursor, History>>

\* `return d.response, ErrStop`
RaceGetStop(c) ==
    /\ callers[c].at = "stop"
    /\ callers' = [callers EXCEPT ![c].at = "idle",
                                  ![c].ret = Return("Get", response, ErrStop, FALSE)]
    /\ UNCHANGED <<cfg, Cursor, History>>

\* the read of d.request and the call of fetchNext with it
RaceGetFetch(c) ==
    /\ callers[c].at = "fetch"
    /\ \E fo \in FetchOutcomes(cfg, request, TRUE) :
         callers' = [callers EXCEPT
            ![c].at = "store",
            ![c].req = request,
            ![c].fo = fo,
            ![c].overlap = IF /\ HoldsRequest(callers[Other(c)])
                              /\ callers[Other(c)].req = request
                           THEN callers[Other(c)].calls ELSE 0]
    /\ UNCHANGED <<cfg, Cursor, History>>

\* fetchNext has returned: the assignment of d.response
RaceGetStore(c) ==
    /\ callers[c].at = "store"
    /\ response' = callers[c].fo.res
    /\ callers' = [callers EXCEPT ![c].at = "stored"]
    /\ UNCHANGED <<cfg, request, next, History>>

\* `if err != nil { return d.response, err }`, else the read of d.response
\* and the call of hasNext with it
RaceGetCheck(c) ==
    /\ callers[c].at = "stored"
    /\ IF callers[c].fo.err # Nil
       THEN callers' = [callers EXCEPT
               ![c].at = "idle",
               ![c].ret = Return("Get", response, callers[c].fo.err, FALSE)]
       ELSE \E ho \in HasNext(cfg, response) :
               callers' = [callers EXCEPT ![c].at = "advance",
                                          ![c].resp = response,
                                          ![c].ho = ho]
    /\ UNCHANGED <<cfg, Cursor, History>>

\* hasNext has returned: the assignment of d.request
RaceGetAdvance(c) ==
    /\ callers[c].at = "advance"
    /\ request' = callers[c].ho.in
    /\ callers' = [callers EXCEPT
          ![c].at = "flag",
          ![c].lost = @ \/ (callers[c].resetSeen /\ callers[c].ho.in # request),
          ![Other(c)].resetSeen = FALSE]
    /\ UNCHANGED <<cfg, response, next, History>>

\* the assignment of d.next
RaceGetFlag(c) ==
    /\ callers[c].at = "flag"
    /\ next' = callers[c].ho.more
    /\ callers' = [callers EXCEPT ![c].at = "return"]
    /\ UNCHANGED <<cfg, request, response, History>>

\* the other goroutine's last call k returned the page that the call j
\* returns now, both after fetching it with the same request read while the
\* other held it
SamePageTwice(j, k) ==
    /\ k.at = "idle" /\ k.op = "Get" /\ k.ret.err = Nil
    /\ k.ret.res = response /\ response # ZeroResponse
    /\ k.req = j.req
    /\ k.fo = j.fo
    /\ j.overlap = k.calls \/ k.overlap = j.calls

\* `return d.response, nil`
RaceGetReturn(c) ==
    /\ callers[c].at = "return"
    /\ callers' = [callers EXCEPT
          ![c].at = "idle",
          ![c].ret = Return("Get", response, Nil, FALSE),
          ![c].twice = @ \/ SamePageTwice(callers[c], callers[Other(c)])]
    /\ UNCHANGED <<cfg, Cursor, History>>

\* goroutine c calls d.Reset(): the call of getFirstRequest and the
\* assignment of d.request
RaceResetCall(c) ==
    /\ callers[c].at = "idle"
    /\ callers[c].calls < MaxCalls
    /\ request' = Reset(cfg, request, next).request
    /\ callers' = [callers EXCEPT
          ![c] = Call("raise", @.calls + 1, "Reset", ZeroRequest, NoFetch,
                      ZeroResponse, NoHasNext, @.ret, 0, FALSE, @.twice, @.lost),
          ![Other(c)].resetSeen = @ \/ HoldsRequest(callers[Other(c)])]
    /\ UNCHANGED <<cfg, response, next, History>>

\* the assignment of d.next by Reset, and its return
RaceResetRaise(c) ==
    /\ callers[c].at = "raise"
    /\ next' = Reset(cfg, request, next).next
    /\ callers' = [callers EXCEPT
          ![c].at = "idle",
          ![c].ret = Return("Reset", ZeroResponse, Nil, FALSE)]
    /\ UNCHANGED <<cfg, request, response, History>>

NextRace ==
    \/ \E c \in Callers : RaceGetCall(c)
    \/ \E c \in Callers : RaceGetStop(c)
    \/ \E c \in Callers : RaceGetFetch(c)
    \/ \E c \in Callers : RaceGetStore(c)
    \/ \E c \in Callers : RaceGetCheck(c)
    \/ \E c \in Callers : RaceGetAdvance(c)
    \/ \E c \in Callers : RaceGetFlag(c)
    \/ \E c \in Callers : RaceGetReturn(c)
    \/ \E c \in Callers : RaceResetCall(c)
    \/ \E c \in Callers : RaceResetRaise(c)

\* two goroutines calling Get and Reset on one cursor of simpleIterator or
\* brokenIterator with nothing to order their calls
InitRace == Init /\ cfg.kind \in {"simple", "broken"}
SpecRace == InitRace /\ [][NextRace]_vars

(* ------------------------------ claims -------------------------------- *)

Checks(t) == Select(t, "hasNext")
Callbacks(t) == Select(t, "callback")
Resets(t) == Select(t, "Reset")

\* this step is a call of Get by the consumer
GetStep == pc = "idle" /\ last'.op = "Get" /\ ctx' = ctx
\* this step is a call of Get whose fetch failed
FailedGetStep == GetStep /\ trace' # <<>> /\ trace'[1].err # Nil
\* this step is, or contains, a call of Reset
ResetStep ==
    \/ pc = "idle" /\ last'.op = "Reset" /\ ctx' = ctx
    \/ pc = "callback" /\ Len(Resets(trace')) > Len(Resets(trace))
\* this step calls fetchNext
FetchStep ==
    \/ GetStep /\ trace' # <<>>
    \/ pc = "loop" /\ Len(trace') > Len(trace)
\* the fetchNext call of a FetchStep
NewFetch == IF pc = "idle" THEN trace'[1] ELSE trace'[Len(trace) + 1]

\* C1: Next() returns true when it is called right after New or right after
\* Reset, whatever state the cursor was in before the Reset.
C1_NextTrueAfterNewOrReset ==
    [][(pc = "idle" /\ last.op \in {"New", "Reset"} /\ last'.op = "Next")
          => last'.b = TRUE]_vars

\* Next() returned true right after a Reset of a cursor that had been used
C1_Witness ==
    /\ last.op = "Next"
    /\ last.b = TRUE
    /\ fresh = "Reset"
    /\ response # ZeroResponse

\* C2: the Get whose page makes hasNext report false returns that page with
\* a nil error; the flag falls only in such a Get (the page is on its way to
\* the consumer or to the callback), and while the flag is down no step
\* fetches.
C2_TerminalPageDelivery ==
    /\ [](last.op = "Get" /\ Len(trace) = 2 /\ ~trace[2].more
            => last.err = Nil /\ last.res = trace[1].res /\ ~next)
    /\ [][(next /\ ~next')
            => /\ FetchStep
               /\ NewFetch.err = Nil
               /\ trace'[Len(trace')].ev = "hasNext"
               /\ ~trace'[Len(trace')].more
               /\ last'.res = NewFetch.res
               /\ last'.err = Nil
               /\ (pc = "idle" => last'.op = "Get")
               /\ (pc = "loop" => pc' = "callback")]_vars
    /\ [][~next => ~FetchStep]_vars

\* a Get has just delivered a non-empty terminal page
C2_Witness ==
    /\ last.op = "Get"
    /\ Len(trace) = 2
    /\ ~trace[2].more
    /\ last.err = Nil
    /\ last.res # ZeroResponse
    /\ ~next

\* C3: once the flag is down it stays down under Next, Get and Iterate, every
\* Get then returns ErrStop and calls neither fetchNext nor hasNext, and only
\* a Reset raises the flag again.
C3_IdempotentExhaustion ==
    [][~next
         => /\ (next' => ResetStep)
            /\ (GetStep => last'.err = ErrStop /\ trace' = <<>>)
            /\ Fetches(trace') \in {<<>>, Fetches(trace)}
            /\ Checks(trace') \in {<<>>, Checks(trace)}]_vars

\* Get on an exhausted cursor has returned the stop sentinel without a fetch
C3_Witness ==
    /\ last.op = "Get"
    /\ last.err = ErrStop
    /\ trace = <<>>
    /\ ~next

\* C4: the Result that Get returns together with ErrStop on an exhausted
\* cursor is the zero value of the Result type, whatever hasNext is.
C4_ExhaustedGetReturnsZero ==
    (last.op = "Get" /\ last.err = ErrStop /\ trace = <<>>)
        => last.res = ZeroResponse

\* C5: a Get whose fetchNext fails leaves the flag and the request as they
\* were, and a Get called right after it calls fetchNext with the same
\* request.
C5_FailedFetchKeepsState ==
    /\ [][FailedGetStep => request' = request /\ next' = next]_vars
    /\ [][(last.op = "Get" /\ trace # <<>> /\ trace[1].err # Nil /\ GetStep)
            => trace' # <<>> /\ trace'[1].in = trace[1].in]_vars

\* a Get failed in mid-iteration, with a pending request that is not the
\* zero value
C5_Witness ==
    /\ last.op = "Get"
    /\ trace # <<>>
    /\ trace[1].err # Nil
    /\ trace[1].in # ZeroRequest
    /\ request = trace[1].in
    /\ next

\* C6: a Get whose fetchNext fails leaves the stored response equal to the
\* value it had before the call.
C6_FailedFetchKeepsResponse ==
    [][FailedGetStep => response' = response]_vars

\* C7: Reset, in any state and also from inside an Iterate callback, sets
\* the request to getFirstRequest() and the flag to true, and the next fetch
\* after it is made with that first request.
C7_ResetRestarts ==
    /\ [][ResetStep => request' = GetFirstRequest(cfg) /\ next']_vars
    /\ [](fresh = "Reset" => request = GetFirstRequest(cfg) /\ next)
    /\ [][(fresh = "Reset" /\ FetchStep)
            => NewFetch.in = GetFirstRequest(cfg)]_vars

\* a callback called Reset when the cursor was past the first page, and the
\* next fetch of the running Iterate was made with the first request
C7_Witness ==
    \E i \in 2..Len(trace) :
       /\ trace[i].ev = "Reset"
       /\ trace[i - 1].ev = "hasNext"
       /\ trace[i - 1].in # GetFirstRequest(cfg)
       /\ i + 2 <= Len(trace)
       /\ trace[i + 2].ev = "fetchNext"
       /\ trace[i + 2].in = GetFirstRequest(cfg)

\* an Iterate call has returned
IterateDone == pc = "idle" /\ last.op = "Iterate" /\ trace # <<>>

\* the Iterate call started right after Reset, every fetch succeeded, every
\* callback returned nil and none called Reset
PlainRun ==
    /\ IterateDone
    /\ trace[1].fresh = "Reset"
    /\ \A i \in 1..Len(trace) : trace[i].err = Nil /\ trace[i].ev # "Reset"

\* number of pages simpleIterator serves from r records: the full and partial
\* pages, then the empty one
SimplePages(r, l) == (r + l - 1) \div l + 1

\* C8: Iterate on a freshly reset cursor, with fetches that all succeed and a
\* callback that always returns nil, over N pages on which hasNext reports
\* true and then one on which it reports false (the empty page), calls the
\* callback N+1 times, once per page in fetch order, the terminal page
\* included, and returns nil.
C8_IterateDeliversEveryPage ==
    PlainRun =>
       LET n == Len(Fetches(trace)) IN
          /\ n >= 1
          /\ Len(trace) = 1 + 3 * n
          /\ \A k \in 1..n :
                /\ trace[3 * k - 1].ev = "fetchNext"
                /\ trace[3 * k].ev = "hasNext"
                /\ trace[3 * k + 1].ev = "callback"
                /\ trace[3 * k + 1].res = trace[3 * k - 1].res
                /\ trace[3 * k].more = (k < n)
          /\ last.err = Nil
          /\ cfg.kind = "simple" =>
                /\ n = SimplePages(cfg.records, cfg.limit)
                /\ trace[3 * n + 1].res = <<>>
                /\ \A k \in 1..n :
                      trace[3 * k + 1].res =
                         MockAPIHandler(cfg.records, (k - 1) * cfg.limit,
                                        cfg.limit)

\* Iterate went through two non-terminal pages and the empty terminal page
\* of simpleIterator
C8_Witness ==
    /\ PlainRun
    /\ cfg.kind = "simple"
    /\ cfg.limit = Limit
    /\ Len(Callbacks(trace)) = 3
    /\ Callbacks(trace)[1].res = <<1, 2>>
    /\ Callbacks(trace)[3].res = <<>>

\* C9: when the callback returns ErrStop on its K-th call, that call is the
\* last thing Iterate does: K callback calls, no fetch after it, and Iterate
\* returns nil.
C9_CallbackStop ==
    \A i \in 1..Len(trace) :
       (trace[i].ev = "callback" /\ trace[i].err = ErrStop)
          => /\ i = Len(trace)
             /\ IterateDone
             /\ last.err = Nil

\* the callback returned ErrStop on its second call, with more pages to come
C9_Witness ==
    /\ IterateDone
    /\ Len(Callbacks(trace)) = 2
    /\ trace[Len(trace)].ev = "callback"
    /\ trace[Len(trace)].err = ErrStop
    /\ next

FailedGet == last.op = "Get" /\ trace # <<>> /\ trace[1].err # Nil

\* the trace is that of an Iterate call
IterateTrace == trace # <<>> /\ trace[1].ev = "Iterate"

\* C11 as stated: an error of fetchNext is returned unchanged by Get and by
\* Iterate, after one fetch attempt; in Iterate the failed fetch is the last
\* event (no callback, no further pass); with the fetch that always fails,
\* every Get and Iterate that fetches returns its error.
C11_FetchErrorVerbatimAsStated ==
    /\ FailedGet => last.err = trace[1].err /\ Len(trace) = 1
    /\ IterateTrace =>
          \A i \in 1..Len(trace) :
             (trace[i].ev = "fetchNext" /\ trace[i].err # Nil)
                => /\ i = Len(trace)
                   /\ IterateDone
                   /\ last.err = trace[i].err
    /\ (cfg.kind = "broken" /\ pc = "idle" /\ Fetches(trace) # <<>>)
          => last.err = ErrNope

\* C11: an error of fetchNext is returned unchanged by Get, after one fetch
\* attempt; Iterate ends at once on a failed fetch, without calling the
\* callback for it, and returns the error unchanged when it neither is
\* ErrStop nor wraps it; with the fetch that always fails, every Get and
\* Iterate that fetches returns its error.
C11_FetchErrorVerbatim ==
    /\ FailedGet => last.err = trace[1].err /\ Len(trace) = 1
    /\ IterateTrace =>
          \A i \in 1..Len(trace) :
             (trace[i].ev = "fetchNext" /\ trace[i].err # Nil)
                => /\ i = Len(trace)
                   /\ IterateDone
                   /\ (~ErrorsIs(trace[i].err, ErrStop)
                         => last.err = trace[i].err)
    /\ (cfg.kind = "broken" /\ pc = "idle" /\ Fetches(trace) # <<>>)
          => last.err = ErrNope

\* Iterate delivered a page, then a fetch failed and Iterate returned its
\* error
C11_Witness ==
    /\ IterateDone
    /\ Len(Callbacks(trace)) = 1
    /\ trace[Len(trace)].ev = "fetchNext"
    /\ trace[Len(trace)].err = ErrNope
    /\ last.err = ErrNope

\* C12: whatever the cursor state, the fetch outcomes and the callback do,
\* the value Iterate returns is nil or an error that is not ErrStop.
C12_IterateNeverReturnsStop ==
    (pc = "idle" /\ last.op = "Iterate") => last.err # ErrStop

\* Iterate has returned nil from a call in which a fetch or the callback
\* gave ErrStop
C12_Witness ==
    /\ IterateDone
    /\ last.err = Nil
    /\ \E i \in 1..Len(trace) : trace[i].err = ErrStop

\* a run of the manual loop has ended
ManualDone == pc = "idle" /\ last.op = "Manual"

\* the records 1..n in order
Records(n) == [i \in 1..n |-> i]

\* the pages the Get calls of the manual loop returned, in order
Gets(t) == Select(t, "Get")

\* C13: over simpleIterator's source of R records served at most L at a time,
\* the manual loop started after Reset collects the records in order without
\* gap or repetition, ends with all of 1..R, and the last page Get returns
\* is the empty one; when no fetch fails the pages returned are the
\* successive pages of the source (R=5, L=2: [1,2], [3,4], [5], []).
C13_ManualLoopCollectsAll ==
    /\ pc = "manual" => last.res = Records(Len(last.res))
    /\ ManualDone =>
          /\ last.res = Records(cfg.records)
          /\ Gets(trace) # <<>>
          /\ Gets(trace)[Len(Gets(trace))].res = <<>>
          /\ Gets(trace)[Len(Gets(trace))].err = Nil
          /\ (\A i \in 1..Len(trace) : trace[i].err = Nil) =>
                /\ Len(Gets(trace)) = SimplePages(cfg.records, cfg.limit)
                /\ \A k \in 1..Len(Gets(trace)) :
                      Gets(trace)[k].res =
                         MockAPIHandler(cfg.records, (k - 1) * cfg.limit,
                                        cfg.limit)

\* the manual loop over five records, two at a time, has returned
\* [1,2], [3,4], [5], []
C13_Witness ==
    /\ ManualDone
    /\ cfg.records = 5
    /\ cfg.limit = Limit
    /\ last.res = <<1, 2, 3, 4, 5>>
    /\ Len(Gets(trace)) = 4
    /\ Gets(trace)[1].res = <<1, 2>>
    /\ Gets(trace)[2].res = <<3, 4>>
    /\ Gets(trace)[3].res = <<5>>
    /\ Gets(trace)[4].res = <<>>

C15_FlagMeaningAsStated ==
    next <=> (fresh # "used" \/ checked.more = "true")

\* C15: the flag is up exactly when no fetch has succeeded (no hasNext call
\* was made) since New or the last Reset, or the most recent hasNext call
\* reported true.
C15_FlagMeaning ==
    next <=> (~checked.since \/ checked.more = "true")

\* an exhausted cursor was Reset and the fetch after it failed
C15_Witness ==
    /\ FailedGet
    /\ checked = [more |-> "false", since |-> FALSE]
    /\ fresh = "used"
    /\ next

\* the closure outcomes the calls in trace t consumed, fetch by fetch
Outcomes(t) ==
    [k \in 1..Len(Fetches(t)) |->
        [fo |-> [res |-> Fetches(t)[k].res, err |-> Fetches(t)[k].err],
         ho |-> IF Fetches(t)[k].err = Nil
                THEN [in |-> Checks(t)[k].in, more |-> Checks(t)[k].more]
                ELSE NoHasNext]]

\* an Iterate call is between two passes of its loop, or has returned, and
\* so far every callback returned nil and none called Reset
NilCallbackRun ==
    /\ IterateTrace
    /\ pc = "loop" \/ IterateDone
    /\ \A i \in 1..Len(trace) :
          /\ trace[i].ev # "Reset"
          /\ trace[i].ev = "callback" => trace[i].err = Nil

\* C16: from the same cursor state and with the same fetchNext and hasNext
\* outcomes, Iterate with a callback that returns nil hands its callback the
\* pages the manual loop, stopped at its first error, gets from Get, makes
\* the same closure calls, and leaves the same request, response and flag.
C16_ManualAndDrivenAgree ==
    NilCallbackRun =>
       LET m == ManualLoop(trace[1].in, trace[1].res, trace[1].more,
                           Outcomes(trace), <<>>) IN
          /\ m.pages = [k \in 1..Len(Callbacks(trace)) |-> Callbacks(trace)[k].res]
          /\ m.left = <<>>
          /\ m.request = request
          /\ m.response = response
          /\ m.next = next
          /\ IterateDone => ~m.starved

\* Iterate, entered in mid-iteration, has delivered two pages and returned
C16_Witness ==
    /\ NilCallbackRun
    /\ IterateDone
    /\ trace[1].fresh = "used"
    /\ trace[1].in # ZeroRequest
    /\ trace[1].more
    /\ Len(Callbacks(trace)) = 2

\* C17: New leaves the request at the zero value and does not call
\* getFirstRequest: every fetch of a cursor that was never Reset before it
\* fetched is made with the zero request, not the seed, so it is the request
\* a Reset cursor first fetches with only when getFirstRequest() is zero.
C17_NewLeavesZeroRequest ==
    /\ [](fresh = "New" => request = ZeroRequest /\ response = ZeroResponse)
    /\ [][(fresh = "New" /\ FetchStep) => NewFetch.in = ZeroRequest]_vars
    /\ [][(fresh \in {"New", "Reset"} /\ FetchStep)
            => ((NewFetch.in = GetFirstRequest(cfg))
                  <=> (fresh = "Reset" \/ GetFirstRequest(cfg) = ZeroRequest))]_vars

\* brokenIterator, whose seed is 1, was asked for a page before any Reset
\* and fetched with request 0
C17_Witness ==
    /\ cfg.kind = "broken"
    /\ FailedGet
    /\ trace[1].in = ZeroRequest
    /\ GetFirstRequest(cfg) # ZeroRequest

\* C18: Reset changes the request and the flag only: the stored response is
\* kept and neither fetchNext nor hasNext is called.
C18_ResetFrame ==
    [][ResetStep
         => /\ response' = response
            /\ Fetches(trace') \in {<<>>, Fetches(trace)}
            /\ Checks(trace') \in {<<>>, Checks(trace)}]_vars

\* Reset has been called on a cursor that holds a page
C18_Witness ==
    /\ last.op = "Reset"
    /\ response # ZeroResponse
    /\ trace = <<>>

\* this step is a call of Next by the consumer
NextStep == pc = "idle" /\ last'.op = "Next" /\ ctx' = ctx

\* C19: Next() returns the flag, calls none of the three closures and changes
\* neither the flag, the request nor the response (so the Get after it
\* fetches what it would have fetched without it).
C19_NextIsPureRead ==
    [][NextStep
         => /\ last'.b = next
            /\ trace' = <<>>
            /\ UNCHANGED <<request, response, next, fresh, checked>>]_vars

\* Next() has reported an exhausted cursor that holds a page
C19_Witness ==
    /\ last.op = "Next"
    /\ last.b = FALSE
    /\ ~next
    /\ response # ZeroResponse

\* in the running Iterate call some page has made hasNext report false
SawLastPage ==
    /\ pc # "idle"
    /\ IterateTrace
    /\ \E i \in 1..Len(trace) : trace[i].ev = "hasNext" /\ ~trace[i].more

\* an Iterate pass that fails to fetch, and a callback that returns non-nil,
\* end the call; Get makes at most one fetchNext call, Next and Reset none,
\* and one pass of Iterate at most one
ReturnsOnError ==
    /\ [][(pc = "loop" /\ FetchStep /\ NewFetch.err # Nil)
            => pc' = "idle" /\ last'.op = "Iterate"]_vars
    /\ [][(pc = "callback" /\ trace'[Len(trace')].err # Nil)
            => pc' = "idle" /\ last'.op = "Iterate"]_vars
    /\ [](pc = "idle" /\ last.op = "Get" => Len(Fetches(trace)) <= 1)
    /\ [](pc = "idle" /\ last.op \in {"Next", "Reset"} => trace = <<>>)
    /\ [][pc = "loop" => Len(Fetches(trace')) <= Len(Fetches(trace)) + 1]_vars

\* Iterate returns only when hasNext has reported false (in this call, or
\* before it, so that the flag was down when the call was entered), a fetch
\* failed or the callback returned non-nil: with fetches that succeed,
\* hasNext always true and a callback always nil it does not return
ReturnsOnlyOnCause ==
    [](IterateDone =>
         \/ ~trace[1].more
         \/ \E i \in 1..Len(trace) :
               \/ trace[i].err # Nil
               \/ trace[i].ev = "hasNext" /\ ~trace[i].more)

\* C20 as stated: Iterate ends once a page has made hasNext report false (it
\* fetches no more after it), or a fetch fails, or the callback returns
\* non-nil; Get, Next and Reset make at most one fetchNext call; and Iterate
\* returns only if a fetch failed, hasNext reported false or the callback
\* returned non-nil.
C20_TerminationAsStated ==
    /\ [][SawLastPage => ~FetchStep]_vars
    /\ ReturnsOnError
    /\ ReturnsOnlyOnCause

\* C20: Iterate returns nil as soon as its loop condition finds the flag down
\* (a page made hasNext report false and the callback did not Reset the
\* cursor since), and it returns when a fetch fails or the callback returns
\* non-nil; Get, Next and Reset make at most one fetchNext call; and Iterate
\* returns only if a fetch failed, hasNext reported false or the callback
\* returned non-nil.
C20_Termination ==
    /\ [][(pc = "loop" /\ ~next)
            => pc' = "idle" /\ last'.op = "Iterate" /\ last'.err = Nil
               /\ trace' = trace]_vars
    /\ (pc = "loop" /\ ~next) ~> (pc = "idle")
    /\ ReturnsOnError
    /\ ReturnsOnlyOnCause

\* Iterate went on after a terminal page because the callback called Reset,
\* and returned nil once the flag was down at the loop condition
C20_Witness ==
    /\ IterateDone
    /\ last.err = Nil
    /\ ~next
    /\ Resets(trace) # <<>>
    /\ trace[Len(trace)].ev = "callback"
    /\ trace[Len(trace)].err = Nil

\* nothing holds a goroutine back from entering Get or Reset while the other
\* is inside a call
NoLock ==
    \A c \in Callers :
        /\ callers[c].at = "idle"
        /\ callers[c].calls < MaxCalls
        /\ callers[Other(c)].at # "idle"
        => ENABLED RaceGetCall(c) /\ ENABLED RaceResetCall(c)

\* a Get that read the request while the other goroutine's Get held it has
\* fetched with the same request, and the same page if both fetches succeeded
SameFetch ==
    \A c \in Callers :
        LET j == callers[c]
            k == callers[Other(c)]
        IN  /\ j.op = "Get" /\ j.overlap # 0 /\ j.at # "fetch"
            /\ k.op = "Get" /\ k.calls = j.overlap
            => /\ j.req = k.req
               /\ j.fo.err = Nil /\ k.fo.err = Nil => j.fo.res = k.fo.res

\* Get assigns the result of its hasNext call to the request and the flag
\* whatever they hold, a request and flag assigned by Reset meanwhile included
Overwrites ==
    \A c \in Callers :
        /\ callers[c].at = "advance" /\ callers'[c].at = "flag"
              => request' = callers[c].ho.in
        /\ callers[c].at = "flag" /\ callers'[c].at = "return"
              => next' = callers[c].ho.more

\* C21: a cursor has no internal locking: a goroutine can enter Get or Reset
\* while another is inside a call; two Get calls can read the same request
\* and then fetch the same page, which both return; and a Get assigns its
\* hasNext result over a request that Reset assigned after the Get had read
\* its own.
C21_NoInternalLocking == []NoLock /\ []SameFetch /\ [][Overwrites]_vars

\* both goroutines are back: one from a Get that returned the page the other
\* had returned for the same request, then one from a Reset and the other from
\* a Get whose hasNext result replaced the request the Reset had assigned
C21_Witness ==
    \E c \in Callers :
        LET j == callers[c]
            k == callers[Other(c)]
        IN  /\ j.at = "idle" /\ j.op = "Get" /\ j.ret.err = Nil
            /\ k.at = "idle" /\ k.op = "Reset"
            /\ j.lost /\ j.resetSeen
            /\ request = j.ho.in /\ request # GetFirstRequest(cfg)
            /\ j.twice \/ k.twice

\* the event of a fetchNext call that failed with ErrStop or an error that
\* wraps it
StopFetch(e) == e.ev = "fetchNext" /\ ErrorsIs(e.err, ErrStop)

\* C22: when fetchNext fails with ErrStop or an error wrapping it, Get
\* returns that very error and leaves the flag up and the request in place;
\* Iterate returns nil on it, the failed fetch being the last thing it did
\* (no callback for it), with the flag still up.
C22_StopFromFetchEndsQuietly ==
    /\ (last.op = "Get" /\ trace # <<>> /\ StopFetch(trace[1]))
          => /\ last.err = trace[1].err
             /\ Len(trace) = 1
             /\ next
             /\ request = trace[1].in
    /\ IterateTrace =>
          \A i \in 1..Len(trace) :
             StopFetch(trace[i])
                => /\ i = Len(trace)
                   /\ IterateDone
                   /\ last.err = Nil
                   /\ next
                   /\ request = trace[i].in

\* Iterate delivered a page, the next fetch failed with an error wrapping
\* ErrStop, and Iterate returned nil with the flag up
C22_Witness ==
    /\ IterateDone
    /\ Len(Callbacks(trace)) = 1
    /\ trace[Len(trace)] = FetchEvent(request, [res |-> ZeroResponse, err |-> WrapStop])
    /\ last.err = Nil
    /\ next

\* the position in t of the hasNext call whose page the callback event at i
\* was given: the event before it, or the one before the Reset the callback
\* made
PageOf(t, i) == IF t[i - 1].ev = "Reset" THEN i - 2 ELSE i - 1

\* C23: in the trace of an Iterate call, a successful fetch is at once
\* followed by one hasNext call on the fetched page, and that by one callback
\* on the same page; a fetch comes first or right after a callback that
\* returned nil, with the request the hasNext call (or the Reset made by the
\* callback) before that callback left in the cursor; a failed fetch is
\* the last event, so no hasNext follows it; and while the callback for a
\* page runs, request and flag are already what hasNext returned for it.
C23_EventOrder ==
    /\ IterateTrace =>
          \A i \in 2..Len(trace) :
             LET e == trace[i] IN
                /\ (e.ev = "fetchNext" /\ e.err = Nil)
                      => /\ i < Len(trace)
                         /\ trace[i + 1].ev = "hasNext"
                         /\ trace[i + 1].res = e.res
                /\ (e.ev = "fetchNext" /\ e.err # Nil) => i = Len(trace)
                /\ e.ev = "fetchNext"
                      => /\ trace[i - 1].ev \in {"Iterate", "callback"}
                         /\ trace[i - 1].err = Nil
                         /\ e.in = IF trace[i - 1].ev = "Iterate"
                                   THEN trace[1].in
                                   ELSE trace[i - 2].in
                /\ e.ev = "hasNext"
                      => /\ trace[i - 1].ev = "fetchNext"
                         /\ trace[i - 1].err = Nil
                         /\ IF i = Len(trace)
                            THEN pc = "callback"
                            ELSE \/ trace[i + 1].ev = "callback"
                                 \/ /\ trace[i + 1].ev = "Reset"
                                    /\ i + 1 < Len(trace)
                                    /\ trace[i + 2].ev = "callback"
                /\ e.ev = "callback"
                      => /\ trace[PageOf(trace, i)].ev = "hasNext"
                         /\ trace[PageOf(trace, i)].res = e.res
                         /\ i < Len(trace) => trace[i + 1].ev = "fetchNext"
                /\ e.ev = "Reset" => trace[i - 1].ev = "hasNext"
    /\ pc = "callback"
          => /\ trace[Len(trace)].ev = "hasNext"
             /\ request = trace[Len(trace)].in
             /\ next = trace[Len(trace)].more
             /\ response = trace[Len(trace)].res
             /\ last.res = response

\* the callback for the second page of simpleIterator runs: the cursor
\* already holds the request for the third
C23_Witness ==
    /\ pc = "callback"
    /\ cfg.kind = "simple" /\ cfg.limit = Limit
    /\ Len(Callbacks(trace)) = 1
    /\ Len(Fetches(trace)) = 2
    /\ response = <<3, 4>>
    /\ request = 4
    /\ next

\* Iterate has returned because the callback, which did not call Reset,
\* returned an error for the page it was given
EarlyEnd ==
    /\ IterateDone
    /\ Len(trace) >= 4
    /\ trace[Len(trace)].ev = "callback"
    /\ trace[Len(trace)].err # Nil
    /\ trace[Len(trace) - 1].ev = "hasNext"

\* the hasNext call made for the page of the callback that ended Iterate
LastCheck == trace[Len(trace) - 1]

\* this step is a call of Iterate
IterateCallStep == pc = "idle" /\ pc' = "loop"

\* C24: when Iterate has ended because the callback returned ErrStop or
\* another error for page K, request and flag are what hasNext returned for
\* page K.  A Get called next fetches with that request if the flag is up
\* (with simpleIterator, records that all come after those of page K) and
\* returns ErrStop without a fetch if it is down; an Iterate called next
\* starts from that request and flag, makes its first fetch with that
\* request, and when the flag is down returns nil with no fetch and no
\* callback.
C24_EarlyEndLeavesCursorAdvanced ==
    /\ [](EarlyEnd => /\ request = LastCheck.in
                      /\ next = LastCheck.more
                      /\ response = trace[Len(trace)].res
                      /\ last.err = IterateReturn(trace[Len(trace)].err)
                      /\ HasMore(next) = LastCheck.more)
    /\ [][(EarlyEnd /\ GetStep) =>
            IF LastCheck.more
            THEN /\ trace' # <<>>
                 /\ trace'[1].ev = "fetchNext"
                 /\ trace'[1].in = LastCheck.in
                 /\ (cfg.kind = "simple" /\ trace'[1].err = Nil)
                       => \A i \in 1..Len(trace'[1].res), j \in 1..Len(response) :
                             trace'[1].res[i] > response[j]
            ELSE trace' = <<>> /\ last'.err = ErrStop]_vars
    /\ [][(EarlyEnd /\ IterateCallStep) =>
            /\ trace'[1].in = LastCheck.in
            /\ trace'[1].more = LastCheck.more]_vars
    /\ [](IterateTrace =>
            /\ Len(trace) >= 2
                  => /\ trace[1].more
                     /\ trace[2].ev = "fetchNext"
                     /\ trace[2].in = trace[1].in
            /\ (~trace[1].more /\ pc = "idle")
                  => Len(trace) = 1 /\ last.op = "Iterate" /\ last.err = Nil)
    /\ [][(pc = "loop" /\ ~next) => pc' = "idle" /\ trace' = trace]_vars

\* Iterate on simpleIterator has returned nil because the callback returned
\* ErrStop for the second page: the cursor holds the request for the third
C24_Witness ==
    /\ EarlyEnd
    /\ cfg.kind = "simple" /\ cfg.limit = Limit
    /\ Len(Callbacks(trace)) = 2
    /\ trace[Len(trace)].err = ErrStop
    /\ trace[Len(trace)].res = <<3, 4>>
    /\ request = 4
    /\ next
    /\ last.err = Nil
====
